---- MODULE Spec2Model ----
(***************************************************************************)
(* The download queue and the recent-downloads list of the zustand store   *)
(* (src/src/stores/app-store.ts), with the asynchronous steps of           *)
(* startDownload, its two event listeners, cancelDownload and the store    *)
(* operations.  Every await of the source is a point where another         *)
(* callback may run; the code between two awaits is one action.            *)
(* SpecStore runs the store operations on a loaded list, SpecSearch the    *)
(* search of RecentDownloadsService, SpecQuality the URL input, the        *)
(* quality selector and the download button, SpecLimiter the request       *)
(* limiter of BotDetectionAvoidance.  SpecPair runs the queue from two     *)
(* pending entries, SpecFlow the download button together with the         *)
(* downloads it starts, SpecSync the store operations together with the    *)
(* persisted collection.                                                   *)
(***************************************************************************)
EXTENDS Integers, Sequences, FiniteSets, TLC

\* ------------------------------------------------------------------ bounds
\* calls the user makes (addToQueue, startDownload, cancelDownload, ...)
MaxUserOps == 3
\* download-complete notifications the backend emits, over all sessions
MaxDeliveries == 2
\* length of a search query
MaxQueryLen == 2
\* length of the list a search runs on
MaxSearchLen == 2
\* beforeRequest calls
MaxCallers == 4
\* actions of the user in the URL input, the quality selector and the
\* download button
MaxUiOps == 4
\* clock ticks in which a new beforeRequest call may still be made
MaxTicks == 2
\* calls of the store actions made while the persisted collection is followed
MaxSyncOps == 2

\* ------------------------------------------------------- program constants
\* [download, ...current].slice(0, 100)
MaxItems == 100
\* new RateLimiter({ requests: 3, period: 60000 })
Period == 60000
MoreRequests == 3 + 1
Requests == 3

\* --------------------------------------------------------------- inputs
None == <<>>
Some(v) == <<v>>

ProgressPayloads ==
  { [progress |-> 45, speed |-> "", eta |-> ""],
    [progress |-> 80, speed |-> "1.0MiB/s", eta |-> "00:10"],
    [progress |-> 120, speed |-> "", eta |-> ""] }
InvokeErrors == {"AuthRequired", "NetworkError", "ToolFailure"}
FileSizes == {52}
Durations == {125}

VARIABLES
  downloadQueue,     \* DownloadItem[]
  recentDownloads,   \* RecentDownload[]
  videoInfo,         \* VideoInfo | null (its duration)
  created,           \* number of items handleDownload has created
  userOps,           \* number of calls the user has made
  starts,            \* the startDownload calls and where each stands
  sessions,          \* backend: the download processes, by downloadId
  progressListeners, \* startDownload calls whose download-progress listener is registered
  completeListeners, \* startDownload calls whose download-complete listener is registered
  handlers,          \* runs of the download-complete callback
  cancels,           \* the cancelDownload calls
  storeOps,          \* store operations called directly, awaiting the backend
  lastAdded,         \* the record of the last applied addRecentDownload, if no
                     \* other change of the list followed it
  availableFormats,  \* VideoFormat[]
  selectedQuality,   \* VideoQuality | null
  lastSearch,        \* the last RecentDownloadsService.search call and its result
  clock,             \* time in milliseconds
  admitted,          \* rate limiter: the times at which it admitted a request
  callers,           \* the beforeRequest calls and where each stands
  persisted          \* backend: the stored recent-downloads collection (followed
                     \* under SpecSync)

\* the probe state of the URL input and the quality selector
probeVars == <<availableFormats, selectedQuality>>
\* the state of the request limiter
limiterVars == <<clock, admitted, callers>>

vars == <<downloadQueue, recentDownloads, videoInfo, created, userOps, starts, sessions,
          progressListeners, completeListeners, handlers, cancels, storeOps,
          lastAdded, availableFormats, selectedQuality, lastSearch, clock,
          admitted, callers, persisted>>

\* ------------------------------------------------------------- helpers
Ids(q) == { q[i].id : i \in DOMAIN q }
InQueue(q, id) == id \in Ids(q)
EntryOf(q, id) == q[CHOOSE i \in DOMAIN q : q[i].id = id]

\* array.filter((d) => d.id !== id)
RECURSIVE WithoutId(_, _)
WithoutId(s, id) ==
  IF s = <<>> THEN <<>>
  ELSE (IF Head(s).id # id THEN <<Head(s)>> ELSE <<>>) \o WithoutId(Tail(s), id)

\* slice(0, n + 1): the cap off by one
SliceKeepsOneMore(s, n) == SubSeq(s, 1, IF Len(s) < n + 1 THEN Len(s) ELSE n + 1)

\* array.slice(0, n)
Slice(s, n) == SubSeq(s, 1, IF Len(s) < n THEN Len(s) ELSE n)

\* a findIndex that never finds the identifier
FindIndexNever(s, id) == 0

\* current.findIndex((d) => d.id === id): 0 stands for -1
FindIndex(s, id) ==
  IF \E i \in DOMAIN s : s[i].id = id
  THEN CHOOSE i \in DOMAIN s : s[i].id = id /\ \A j \in 1..(i - 1) : s[j].id # id
  ELSE 0

\* an upsert that moves an existing identifier to the front
UpsertMoveToFront(current, download) ==
  LET others == WithoutId(current, download.id)
  IN SubSeq(<<download>> \o others, 1,
            IF Len(others) + 1 < MaxItems THEN Len(others) + 1 ELSE MaxItems)

\* an add without the lookup of the identifier
UpsertAlwaysPrepend(current, download) ==
  SubSeq(<<download>> \o current, 1,
         IF Len(current) + 1 < MaxItems THEN Len(current) + 1 ELSE MaxItems)

\* lines 276-285: the body of addRecentDownload after the await
UpsertLocal(current, download) ==
  LET existingIndex == FindIndex(current, download.id)
  IN IF existingIndex >= 1
     THEN [current EXCEPT ![existingIndex] = download]
     ELSE Slice(<<download>> \o current, MaxItems)

\* ------------------------------------------------------------- initial state
Init ==
  /\ downloadQueue = <<>>
  /\ recentDownloads = <<>>
  /\ videoInfo = None
  /\ created = 0
  /\ userOps = 0
  /\ starts = <<>>
  /\ sessions = <<>>
  /\ progressListeners = {}
  /\ completeListeners = {}
  /\ handlers = <<>>
  /\ cancels = <<>>
  /\ storeOps = <<>>
  /\ lastAdded = None
  /\ availableFormats = <<>>
  /\ selectedQuality = None
  /\ lastSearch = None
  /\ clock = 0
  /\ admitted = <<>>
  /\ callers = <<>>
  /\ persisted = <<>>

\* ------------------------------------------------------------- user actions
\* URLInput: a probe result arrives (setVideoInfo(info)) or the input is cleared
SetVideoInfo ==
  /\ userOps < MaxUserOps
  /\ userOps' = userOps + 1
  /\ \E v \in {None} \cup { Some(d) : d \in Durations } :
       /\ v # videoInfo
       /\ videoInfo' = v
  /\ UNCHANGED <<downloadQueue, recentDownloads, created, starts, sessions,
                 progressListeners, completeListeners, handlers, cancels,
                 storeOps, lastAdded>>
  /\ UNCHANGED <<probeVars, lastSearch, limiterVars, persisted>>

\* handleDownload builds the item: format is always 'mp4', quality is the
\* resolution of the selected quality, title is videoInfo.title (the probe
\* result stands for its video, so title names the video the item is for)
NewItem(id, quality, info) ==
  [progress |-> 0, speed |-> "0 B/s", eta |-> "--:--", id |-> id,
   quality |-> quality, status |-> "pending", error |-> None, size |-> None,
   duration |-> None, downloadedAt |-> None, format |-> "mp4", title |-> info]

\* selectedQuality.resolution
QualityResolution(selected) ==
  IF selected = None THEN None ELSE Some(selected[1].resolution)

\* addToQueue puts the item first

AddToQueue ==
  /\ userOps < MaxUserOps
  /\ userOps' = userOps + 1
  /\ created' = created + 1
  /\ downloadQueue' = <<NewItem(created + 1, QualityResolution(selectedQuality),
                                videoInfo)>> \o downloadQueue
  /\ UNCHANGED <<recentDownloads, videoInfo, starts, sessions, progressListeners,
                 completeListeners, handlers, cancels, storeOps, lastAdded>>
  /\ UNCHANGED <<probeVars, lastSearch, limiterVars, persisted>>

RemoveFromQueue ==
  /\ userOps < MaxUserOps
  /\ userOps' = userOps + 1
  /\ \E id \in Ids(downloadQueue) :
       downloadQueue' = WithoutId(downloadQueue, id)
  /\ UNCHANGED <<recentDownloads, videoInfo, created, starts, sessions,
                 progressListeners, completeListeners, handlers, cancels,
                 storeOps, lastAdded>>
  /\ UNCHANGED <<probeVars, lastSearch, limiterVars, persisted>>

\* ---------------------------------------------------------- startDownload
\* lines 142-149
SetDownloading(q, id) ==
  [i \in DOMAIN q |->
     IF q[i].id = id THEN [q[i] EXCEPT !.status = "downloading"] ELSE q[i]]

\* lines 133-160: the call startDownload makes for item id: it captures
\* videoInfo and invokes start_download with format: item.format.  calls and
\* refreshes count the start_download and refresh_cookies invocations the call
\* has made: line 153 is its only start_download, and lines 132-244 invoke no
\* refresh_cookies.  chosen is the quality selected when the call was made.
StartTask(q, id, info, chosen) ==
  [videoInfo |-> info, id |-> id, error |-> None, format |-> EntryOf(q, id).format,
   title |-> EntryOf(q, id).title, chosen |-> chosen, pc |-> "invoke",
   downloadId |-> 0, calls |-> 1, refreshes |-> 0]

\* lines 133-153: find the item, capture videoInfo, set status 'downloading',
\* then invoke start_download and wait
StartDownload ==
  /\ userOps < MaxUserOps
  /\ userOps' = userOps + 1
  /\ \E id \in Ids(downloadQueue) :
       /\ downloadQueue' = SetDownloading(downloadQueue, id)
       /\ starts' = Append(starts,
                           StartTask(downloadQueue, id, videoInfo, selectedQuality))
  /\ UNCHANGED <<recentDownloads, videoInfo, created, sessions, progressListeners,
                 completeListeners, handlers, cancels, storeOps, lastAdded>>
  /\ UNCHANGED <<probeVars, lastSearch, limiterVars, persisted>>

\* line 153 resolves: the backend has spawned a process and returns its id
StartDownloadOk(t) ==
  /\ starts[t].pc = "invoke"
  /\ sessions' = Append(sessions, [state |-> "running"])
  /\ starts' = [starts EXCEPT ![t].pc = "listenProgress",
                              ![t].downloadId = Len(sessions) + 1]
  /\ UNCHANGED <<userOps, downloadQueue, recentDownloads, videoInfo, created,
                 progressListeners, completeListeners, handlers, cancels,
                 storeOps, lastAdded>>
  /\ UNCHANGED <<probeVars, lastSearch, limiterVars, persisted>>

\* a catch that sets the status and drops the message
CatchStartErrorNoMessage(q, id, error) ==
  [i \in DOMAIN q |->
     IF q[i].id = id THEN [q[i] EXCEPT !.status = "failed"] ELSE q[i]]

\* lines 236-243: the catch block
CatchStartError(q, id, error) ==
  [i \in DOMAIN q |->
     IF q[i].id = id
     THEN [q[i] EXCEPT !.status = "failed", !.error = Some(error)]
     ELSE q[i]]

\* line 153 rejects
StartDownloadFails(t) ==
  /\ starts[t].pc = "invoke"
  /\ \E error \in InvokeErrors :
       /\ downloadQueue' = CatchStartError(downloadQueue, starts[t].id, error)
       /\ starts' = [starts EXCEPT ![t].pc = "failed", ![t].error = Some(error)]
  /\ UNCHANGED <<userOps, recentDownloads, videoInfo, created, sessions, progressListeners,
                 completeListeners, handlers, cancels, storeOps, lastAdded>>
  /\ UNCHANGED <<probeVars, lastSearch, limiterVars, persisted>>

\* line 164 resolves: the download-progress listener is registered
ListenProgress(t) ==
  /\ starts[t].pc = "listenProgress"
  /\ progressListeners' = progressListeners \cup {t}
  /\ starts' = [starts EXCEPT ![t].pc = "listenComplete"]
  /\ UNCHANGED <<userOps, downloadQueue, recentDownloads, videoInfo, created, sessions,
                 completeListeners, handlers, cancels, storeOps, lastAdded>>
  /\ UNCHANGED <<probeVars, lastSearch, limiterVars, persisted>>

\* line 182 resolves: the download-complete listener is registered
ListenComplete(t) ==
  /\ starts[t].pc = "listenComplete"
  /\ completeListeners' = completeListeners \cup {t}
  /\ starts' = [starts EXCEPT ![t].pc = "done"]
  /\ UNCHANGED <<userOps, downloadQueue, recentDownloads, videoInfo, created, sessions,
                 progressListeners, handlers, cancels, storeOps, lastAdded>>
  /\ UNCHANGED <<probeVars, lastSearch, limiterVars, persisted>>

\* ------------------------------------------------------- progress listener
\* lines 168-177: the listener of call t, for an event of its own session
ApplyProgress(q, id, payload) ==
  [i \in DOMAIN q |->
     IF q[i].id = id
     THEN [q[i] EXCEPT !.progress = payload.progress,
                       !.speed = IF payload.speed # "" THEN payload.speed ELSE @,
                       !.eta = IF payload.eta # "" THEN payload.eta ELSE @]
     ELSE q[i]]

\* a listener that acts on the events of every session
PayloadIsAnyones(t, s) == TRUE

\* line 167: payload.id === downloadId, in the listener of call t
PayloadIsMine(t, s) == starts[t].downloadId = s

\* every registered progress listener sees the event; those of session s act
RECURSIVE DeliverProgress(_, _, _, _)
DeliverProgress(q, ts, s, payload) ==
  IF ts = {} THEN q
  ELSE LET t == CHOOSE x \in ts : \A y \in ts : x <= y
           q1 == IF PayloadIsMine(t, s)
                 THEN ApplyProgress(q, starts[t].id, payload) ELSE q
       IN DeliverProgress(q1, ts \ {t}, s, payload)

\* the backend emits download-progress for a running process
EmitProgress(s) ==
  /\ sessions[s].state = "running"
  /\ \E payload \in ProgressPayloads :
       downloadQueue' = DeliverProgress(downloadQueue, progressListeners, s, payload)
  /\ UNCHANGED <<userOps, recentDownloads, videoInfo, created, starts, sessions,
                 progressListeners, completeListeners, handlers, cancels,
                 storeOps, lastAdded>>
  /\ UNCHANGED <<probeVars, lastSearch, limiterVars, persisted>>

\* ------------------------------------------------------- complete listener
\* line 184: each registered complete listener of session s starts a run of
\* the callback, which first awaits get_file_size
NewHandlers(ts) ==
  LET RECURSIVE Build(_)
      Build(rest) ==
        IF rest = {} THEN <<>>
        ELSE LET t == CHOOSE x \in rest : \A y \in rest : x <= y
             IN <<[pc |-> "size", t |-> t, fileSize |-> 0, completedAt |-> 0]>>
                  \o Build(rest \ {t})
  IN Build(ts)

\* the backend emits download-complete for a process (again, when the
\* transport redelivers it)
EmitComplete(s) ==
  /\ sessions[s].state \in {"running", "completed"}
  /\ Len(handlers) < MaxDeliveries
  /\ sessions' = [sessions EXCEPT ![s].state = "completed"]
  /\ handlers' = handlers \o
       NewHandlers({t \in completeListeners : starts[t].downloadId = s})
  /\ UNCHANGED <<userOps, downloadQueue, recentDownloads, videoInfo, created, starts,
                 progressListeners, completeListeners, cancels, storeOps,
                 lastAdded>>
  /\ UNCHANGED <<probeVars, lastSearch, limiterVars, persisted>>

\* the process ends without any notification (crash, kill)
ProcessExit(s) ==
  /\ sessions[s].state = "running"
  /\ sessions' = [sessions EXCEPT ![s].state = "exited"]
  /\ UNCHANGED <<userOps, downloadQueue, recentDownloads, videoInfo, created, starts,
                 progressListeners, completeListeners, handlers, cancels,
                 storeOps, lastAdded>>
  /\ UNCHANGED <<probeVars, lastSearch, limiterVars, persisted>>

\* new Date().toISOString(): later runs read a later time
CompletedAt == 1 + Cardinality({h \in DOMAIN handlers : handlers[h].pc # "size"})

\* videoInfo?.duration || d.duration || 0
ItemDuration(info, d) ==
  IF info # None /\ info[1] # 0 THEN info[1]
  ELSE IF d.duration # None /\ d.duration[1] # 0 THEN d.duration[1] ELSE 0

\* a completion that forgets progress: 100
ApplyCompleteKeepsProgress(q, id, info, fileSize, completedAt) ==
  [i \in DOMAIN q |->
     IF q[i].id = id
     THEN [q[i] EXCEPT !.status = "completed", !.downloadedAt = Some(completedAt),
                       !.size = Some(fileSize),
                       !.duration = Some(IF info # None THEN info[1] ELSE 0)]
     ELSE q[i]]

\* lines 195-205
ApplyComplete(q, id, info, fileSize, completedAt) ==
  [i \in DOMAIN q |->
     IF q[i].id = id
     THEN [q[i] EXCEPT !.status = "completed", !.progress = 100,
                       !.downloadedAt = Some(completedAt),
                       !.size = Some(fileSize),
                       !.duration = Some(ItemDuration(info, q[i]))]
     ELSE q[i]]

\* lines 217-226: the record handed to addRecentDownload
RecordOf(t, fileSize, completedAt) ==
  [id |-> starts[t].id, size |-> fileSize,
   duration |-> IF starts[t].videoInfo # None THEN starts[t].videoInfo[1] ELSE 0,
   downloadedAt |-> completedAt]

\* lines 186-216: get_file_size resolves (r = None: it rejected, fileSize stays 0);
\* the entry is set completed, the probe state is cleared, addRecentDownload
\* is called and awaits save_recent_download
GetFileSizeDone(h) ==
  /\ handlers[h].pc = "size"
  /\ \E r \in {None} \cup { Some(n) : n \in FileSizes } :
       LET fileSize == IF r = None THEN 0 ELSE r[1]
           t == handlers[h].t
       IN /\ downloadQueue' = ApplyComplete(downloadQueue, starts[t].id,
                                            starts[t].videoInfo, fileSize, CompletedAt)
          /\ handlers' = [handlers EXCEPT ![h].pc = "save",
                                          ![h].fileSize = fileSize,
                                          ![h].completedAt = CompletedAt]
  /\ videoInfo' = None
  /\ availableFormats' = <<>>
  /\ selectedQuality' = None
  /\ UNCHANGED <<userOps, recentDownloads, created, starts, sessions, progressListeners,
                 completeListeners, cancels, storeOps, lastAdded>>
  /\ UNCHANGED <<lastSearch, limiterVars, persisted>>

\* a failed save that reaches the catch of startDownload: the entry is set
\* failed and the listeners stay
SaveRecentDoneRethrows(h) ==
  /\ handlers[h].pc = "save"
  /\ \E ok \in BOOLEAN :
       LET t == handlers[h].t
           download == RecordOf(t, handlers[h].fileSize, handlers[h].completedAt)
       IN /\ recentDownloads' = IF ok THEN UpsertLocal(recentDownloads, download)
                                ELSE recentDownloads
          /\ lastAdded' = IF ok THEN Some(download) ELSE lastAdded
          /\ handlers' = [handlers EXCEPT ![h].pc = IF ok THEN "done" ELSE "doneUnsaved"]
          /\ progressListeners' = IF ok THEN progressListeners \ {t} ELSE progressListeners
          /\ completeListeners' = IF ok THEN completeListeners \ {t} ELSE completeListeners
          /\ downloadQueue' = IF ok THEN downloadQueue
                              ELSE CatchStartError(downloadQueue, starts[t].id,
                                                   "save_recent_download")
  /\ UNCHANGED <<userOps, videoInfo, created, starts, sessions, cancels, storeOps>>
  /\ UNCHANGED <<probeVars, lastSearch, limiterVars, persisted>>

\* lines 272-292 and 232-233: save_recent_download resolves or rejects, the
\* local list is updated on success, then both listeners are removed
SaveRecentDone(h) ==
  /\ handlers[h].pc = "save"
  /\ \E ok \in BOOLEAN :
       LET t == handlers[h].t
           download == RecordOf(t, handlers[h].fileSize, handlers[h].completedAt)
       IN /\ recentDownloads' = IF ok THEN UpsertLocal(recentDownloads, download)
                                ELSE recentDownloads
          /\ lastAdded' = IF ok THEN Some(download) ELSE lastAdded
          /\ handlers' = [handlers EXCEPT ![h].pc = IF ok THEN "done" ELSE "doneUnsaved"]
          /\ progressListeners' = progressListeners \ {t}
          /\ completeListeners' = completeListeners \ {t}
  /\ UNCHANGED <<userOps, downloadQueue, videoInfo, created, starts, sessions, cancels,
                 storeOps>>
  /\ UNCHANGED <<probeVars, lastSearch, limiterVars, persisted>>

\* ---------------------------------------------------------- cancelDownload
\* identifiers as the adapter sees them: an entry's id is the string made by
\* crypto.randomUUID() in handleDownload; a session's id is the string
\* start_download returned.  start_download is not told the entry's id
\* (lines 154-159), so the two are different strings.
EntryKey(id) == <<"entry", id>>
SessionKey(s) == <<"session", s>>

\* line 248: the identifier handed to cancel_download is the argument id
CancelRequest(id) == EntryKey(id)

\* the sessions start_download has returned to the calls made for entry id
BoundSessions(id) ==
  { starts[t].downloadId : t \in { x \in DOMAIN starts :
                                     starts[x].id = id /\ starts[x].downloadId # 0 } }

\* line 248: invoke cancel_download and wait.  The call carries only id; bound
\* and was remember the sessions and the status the entry had when it was made.
CancelDownload ==
  /\ userOps < MaxUserOps
  /\ userOps' = userOps + 1
  /\ \E id \in Ids(downloadQueue) :
       cancels' = Append(cancels, [id |-> id, pc |-> "invoke",
                                   bound |-> BoundSessions(id),
                                   was |-> EntryOf(downloadQueue, id).status])
  /\ UNCHANGED <<downloadQueue, recentDownloads, videoInfo, created, starts,
                 sessions, progressListeners, completeListeners, handlers,
                 storeOps, lastAdded>>
  /\ UNCHANGED <<probeVars, lastSearch, limiterVars, persisted>>

\* lines 249-253
ApplyCancel(q, id) ==
  [i \in DOMAIN q |->
     IF q[i].id = id THEN [q[i] EXCEPT !.status = "pending"] ELSE q[i]]

\* the invoke resolves: the set runs; or it rejects: the catch only logs
CancelDone(c) ==
  /\ cancels[c].pc = "invoke"
  /\ \E ok \in BOOLEAN :
       /\ downloadQueue' = IF ok THEN ApplyCancel(downloadQueue, cancels[c].id)
                           ELSE downloadQueue
       /\ cancels' = [cancels EXCEPT ![c].pc = "done"]
  /\ UNCHANGED <<userOps, recentDownloads, videoInfo, created, starts, sessions,
                 progressListeners, completeListeners, handlers, storeOps,
                 lastAdded>>
  /\ UNCHANGED <<probeVars, lastSearch, limiterVars, persisted>>

\* ------------------------------------------------- recent-downloads store
\* the list loadRecentDownloads has put in place: most recent first, one
\* record per identifier
LoadedRecord(i) == [id |-> i, size |-> 0, duration |-> 0, downloadedAt |-> 0]
LoadedList(n) == [i \in 1..n |-> LoadedRecord(i)]
LoadedSizes == {2, MaxItems - 1, MaxItems}
AddIds == {2, MaxItems + 1, MaxItems + 2}
RemoveIds == {2}
NewRecord(i) == [id |-> i, size |-> 52, duration |-> 125, downloadedAt |-> 1]

InitStore ==
  /\ downloadQueue = <<>>
  /\ recentDownloads \in { LoadedList(n) : n \in LoadedSizes }
  /\ videoInfo = None
  /\ created = 0
  /\ userOps = 0
  /\ starts = <<>>
  /\ sessions = <<>>
  /\ progressListeners = {}
  /\ completeListeners = {}
  /\ handlers = <<>>
  /\ cancels = <<>>
  /\ storeOps = <<>>
  /\ lastAdded = None
  /\ availableFormats = <<>>
  /\ selectedQuality = None
  /\ lastSearch = None
  /\ clock = 0
  /\ admitted = <<>>
  /\ callers = <<>>
  /\ persisted = <<>>

StoreCall(op) ==
  /\ userOps < MaxUserOps
  /\ userOps' = userOps + 1
  /\ storeOps' = Append(storeOps, op)
  /\ UNCHANGED <<downloadQueue, recentDownloads, videoInfo, created, starts,
                 sessions, progressListeners, completeListeners, handlers,
                 cancels, lastAdded>>
  /\ UNCHANGED <<probeVars, lastSearch, limiterVars, persisted>>

\* line 272: addRecentDownload invokes save_recent_download and waits
AddRecentDownload ==
  \E i \in AddIds : StoreCall([download |-> NewRecord(i), pc |-> "invoke", kind |-> "add"])

\* line 362
RemoveRecentDownload ==
  \E i \in RemoveIds : StoreCall([download |-> LoadedRecord(i), pc |-> "invoke", kind |-> "remove"])

\* line 353
ClearRecentDownloads ==
  StoreCall([download |-> LoadedRecord(0), pc |-> "invoke", kind |-> "clear"])

\* lines 363-365
RemoveLocal(current, id) == WithoutId(current, id)

\* a store operation that updates the local list whether or not the backend
\* call succeeded
StoreOpDoneOptimistic(o) ==
  /\ storeOps[o].pc = "invoke"
  /\ \E ok \in BOOLEAN :
       /\ storeOps' = [storeOps EXCEPT ![o].pc = IF ok THEN "done" ELSE "failed"]
       /\ recentDownloads' =
            IF storeOps[o].kind = "add"
            THEN UpsertLocal(recentDownloads, storeOps[o].download)
            ELSE IF storeOps[o].kind = "remove"
                 THEN RemoveLocal(recentDownloads, storeOps[o].download.id)
            ELSE <<>>
       /\ lastAdded' =
            IF storeOps[o].kind = "add" THEN Some(storeOps[o].download) ELSE None
  /\ UNCHANGED <<userOps, downloadQueue, videoInfo, created, starts, sessions,
                 progressListeners, completeListeners, handlers, cancels>>
  /\ UNCHANGED <<probeVars, lastSearch, limiterVars, persisted>>

\* the invoke of a store operation resolves (the local list is then updated)
\* or rejects (the catch only logs)
StoreOpDone(o) ==
  /\ storeOps[o].pc = "invoke"
  /\ \E ok \in BOOLEAN :
       /\ storeOps' = [storeOps EXCEPT ![o].pc = IF ok THEN "done" ELSE "failed"]
       /\ recentDownloads' =
            IF ~ok THEN recentDownloads
            ELSE IF storeOps[o].kind = "add"
                 THEN UpsertLocal(recentDownloads, storeOps[o].download)
            ELSE IF storeOps[o].kind = "remove"
                 THEN RemoveLocal(recentDownloads, storeOps[o].download.id)
            ELSE <<>>
       /\ lastAdded' =
            IF ~ok THEN lastAdded
            ELSE IF storeOps[o].kind = "add" THEN Some(storeOps[o].download)
            ELSE None
  /\ UNCHANGED <<userOps, downloadQueue, videoInfo, created, starts, sessions,
                 progressListeners, completeListeners, handlers, cancels>>
  /\ UNCHANGED <<probeVars, lastSearch, limiterVars, persisted>>

\* ------------------------------------ the store and the persisted collection
\* records as far as the file operations look at them
StoredRecord(i, path) == [id |-> i, filePath |-> path]
\* the collection at start: empty, or two downloads saved to the same file
StoredLists ==
  { <<>>, <<StoredRecord(2, "a.mp4"), StoredRecord(1, "a.mp4")>> }
\* the records the user adds, the identifiers removed and the files deleted
SyncAdds == { StoredRecord(3, "b.mp4") }
SyncRemoves == {1}
SyncPaths == {"a.mp4"}

\* RecentDownloadsManager.addDownload: replace in place or unshift, then trim
PersistAdd(stored, download) ==
  LET existingIndex == FindIndex(stored, download.id)
  IN Slice(IF existingIndex >= 1
           THEN [stored EXCEPT ![existingIndex] = download]
           ELSE <<download>> \o stored, MaxItems)

\* RecentDownloadsManager.deleteDownload
PersistRemove(stored, id) == WithoutId(stored, id)

\* recentDownloads.find((d) => d.filePath === path)
FindByPath(current, path) ==
  IF \E i \in DOMAIN current : current[i].filePath = path
  THEN Some(current[CHOOSE i \in DOMAIN current :
                      /\ current[i].filePath = path
                      /\ \A j \in 1..(i - 1) : current[j].filePath # path])
  ELSE None

\* recentDownloads.filter((d) => d.filePath !== path)
RECURSIVE WithoutPath(_, _)
WithoutPath(current, path) ==
  IF current = <<>> THEN <<>>
  ELSE (IF Head(current).filePath # path THEN <<Head(current)>> ELSE <<>>)
         \o WithoutPath(Tail(current), path)

\* the list is loaded and shows the stored collection
InitSync ==
  /\ downloadQueue = <<>>
  /\ persisted \in StoredLists
  /\ recentDownloads = persisted
  /\ videoInfo = None
  /\ created = 0
  /\ userOps = 0
  /\ starts = <<>>
  /\ sessions = <<>>
  /\ progressListeners = {}
  /\ completeListeners = {}
  /\ handlers = <<>>
  /\ cancels = <<>>
  /\ storeOps = <<>>
  /\ lastAdded = None
  /\ availableFormats = <<>>
  /\ selectedQuality = None
  /\ lastSearch = None
  /\ clock = 0
  /\ admitted = <<>>
  /\ callers = <<>>

\* a store action is called and suspends at its first invoke
SyncCall(op) ==
  /\ userOps < MaxSyncOps
  /\ userOps' = userOps + 1
  /\ storeOps' = Append(storeOps, op)
  /\ UNCHANGED <<downloadQueue, recentDownloads, videoInfo, created, starts,
                 sessions, progressListeners, completeListeners, handlers,
                 cancels, lastAdded>>
  /\ UNCHANGED <<probeVars, lastSearch, limiterVars, persisted>>

\* what a call remembers: its kind and where it stands, its argument (download
\* or path), the record deleteFile found, and the list a load was answered with
SyncOp(kind, pc, download, path) ==
  [download |-> download, pc |-> pc, kind |-> kind, path |-> path,
   found |-> IF kind = "delete" THEN FindByPath(recentDownloads, path) ELSE None,
   response |-> <<>>]

\* line 261
LoadRecentDownloads == SyncCall(SyncOp("load", "invoke", None, ""))

\* line 272
SyncAddRecentDownload ==
  \E d \in SyncAdds : SyncCall(SyncOp("add", "invoke", Some(d), ""))

\* line 362
SyncRemoveRecentDownload ==
  \E i \in SyncRemoves :
    SyncCall(SyncOp("remove", "invoke", Some(StoredRecord(i, "")), ""))

\* line 353
SyncClearRecentDownloads == SyncCall(SyncOp("clear", "invoke", None, ""))

\* lines 330-334: deleteFile looks the record up, then invokes delete_file
DeleteFile ==
  \E path \in SyncPaths : SyncCall(SyncOp("delete", "deleteFile", None, path))

\* line 334 resolves: deleteFile goes on to remove_recent_download when it had
\* found a record, else straight to the local update; or it rejects: the catch
DeleteFileDone(o) ==
  /\ storeOps[o].pc = "deleteFile"
  /\ \E ok \in BOOLEAN :
       storeOps' = [storeOps EXCEPT ![o].pc =
                      IF ~ok THEN "failed"
                      ELSE IF storeOps[o].found # None THEN "invoke" ELSE "served"]
  /\ UNCHANGED <<userOps, downloadQueue, recentDownloads, videoInfo, created, starts,
                 sessions, progressListeners, completeListeners, handlers,
                 cancels, lastAdded>>
  /\ UNCHANGED <<probeVars, lastSearch, limiterVars, persisted>>

\* the collection after the backend has carried out the command of call op
Persist(stored, op) ==
  IF op.kind = "add" THEN PersistAdd(stored, op.download[1])
  ELSE IF op.kind = "remove" THEN PersistRemove(stored, op.download[1].id)
  ELSE IF op.kind = "delete" THEN PersistRemove(stored, op.found[1].id)
  ELSE IF op.kind = "clear" THEN <<>>
  ELSE stored

\* the backend carries out the command a call has invoked and answers (a load
\* is answered with the collection as it is now), or it fails the command
BackendServes(o) ==
  /\ storeOps[o].pc = "invoke"
  /\ \E ok \in BOOLEAN :
       /\ persisted' = IF ok THEN Persist(persisted, storeOps[o]) ELSE persisted
       /\ storeOps' = [storeOps EXCEPT
                         ![o].pc = IF ok THEN "served" ELSE "rejected",
                         ![o].response = IF ok /\ storeOps[o].kind = "load"
                                         THEN persisted ELSE <<>>]
  /\ UNCHANGED <<userOps, downloadQueue, recentDownloads, videoInfo, created, starts,
                 sessions, progressListeners, completeListeners, handlers,
                 cancels, lastAdded>>
  /\ UNCHANGED <<probeVars, lastSearch, limiterVars>>

\* the set() after the await: lines 262, 276-287, 363-365, 354 and 342-345
ApplyAnswer(current, op) ==
  IF op.kind = "load" THEN op.response
  ELSE IF op.kind = "add" THEN UpsertLocal(current, op.download[1])
  ELSE IF op.kind = "remove" THEN RemoveLocal(current, op.download[1].id)
  ELSE IF op.kind = "delete" THEN WithoutPath(current, op.path)
  ELSE <<>>

\* the await of a call resumes: with the answer the list is updated, with an
\* error the catch only logs
SyncOpDone(o) ==
  /\ storeOps[o].pc \in {"served", "rejected"}
  /\ storeOps' = [storeOps EXCEPT
                    ![o].pc = IF storeOps[o].pc = "served" THEN "done" ELSE "failed"]
  /\ recentDownloads' = IF storeOps[o].pc = "served"
                        THEN ApplyAnswer(recentDownloads, storeOps[o])
                        ELSE recentDownloads
  /\ UNCHANGED <<userOps, downloadQueue, videoInfo, created, starts,
                 sessions, progressListeners, completeListeners, handlers,
                 cancels, lastAdded>>
  /\ UNCHANGED <<probeVars, lastSearch, limiterVars, persisted>>

NextSync ==
  \/ LoadRecentDownloads
  \/ SyncAddRecentDownload
  \/ SyncRemoveRecentDownload
  \/ SyncClearRecentDownloads
  \/ DeleteFile
  \/ \E o \in DOMAIN storeOps : DeleteFileDone(o)
  \/ \E o \in DOMAIN storeOps : BackendServes(o)
  \/ \E o \in DOMAIN storeOps : SyncOpDone(o)

SpecSync == InitSync /\ [][NextSync]_vars

\* ------------------------------------------- RecentDownloadsService.search
\* strings are sequences of characters
Alphabet == {"a", "A", "b", "x"}
\* the queries typed: every string of at most MaxQueryLen characters
Queries == UNION { [1..n -> Alphabet] : n \in 0..MaxQueryLen }

\* records with a title and a source URL
SearchRecords ==
  { [id |-> 1, title |-> <<"A", "b">>, url |-> <<"x">>],
    [id |-> 2, title |-> <<"b", "a">>, url |-> <<"a", "B">>],
    [id |-> 3, title |-> <<>>, url |-> <<"B", "x">>] }
\* the stored lists: at most MaxSearchLen records, one per identifier
SearchLists ==
  { l \in UNION { [1..n -> SearchRecords] : n \in 0..MaxSearchLen } :
      \A i, j \in DOMAIN l : i # j => l[i].id # l[j].id }

\* one character of String.prototype.toLowerCase
LowerOf(c) == CASE c = "A" -> "a" [] c = "B" -> "b" [] OTHER -> c

\* a lower-casing that leaves the string as it is
ToLowerCaseKeepsCase(str) == str

\* str.toLowerCase()
ToLowerCase(str) == [i \in DOMAIN str |-> LowerOf(str[i])]

\* str.includes(sub)
Includes(str, sub) ==
  \E i \in 0..(Len(str) - Len(sub)) : SubSeq(str, i + 1, i + Len(sub)) = sub

\* part_000 lines 49-51: the predicate of the filter
Matches(d, lowerQuery) ==
  \/ Includes(ToLowerCase(d.title), lowerQuery)
  \/ Includes(ToLowerCase(d.url), lowerQuery)

\* all.filter(...)
RECURSIVE FilterMatching(_, _)
FilterMatching(all, lowerQuery) ==
  IF all = <<>> THEN <<>>
  ELSE (IF Matches(Head(all), lowerQuery) THEN <<Head(all)>> ELSE <<>>)
       \o FilterMatching(Tail(all), lowerQuery)

\* part_000 lines 46-52, on the list getAll returned
SearchIn(all, query) == FilterMatching(all, ToLowerCase(query))

InitSearch ==
  /\ downloadQueue = <<>>
  /\ recentDownloads \in SearchLists
  /\ videoInfo = None
  /\ created = 0
  /\ userOps = 0
  /\ starts = <<>>
  /\ sessions = <<>>
  /\ progressListeners = {}
  /\ completeListeners = {}
  /\ handlers = <<>>
  /\ cancels = <<>>
  /\ storeOps = <<>>
  /\ lastAdded = None
  /\ availableFormats = <<>>
  /\ selectedQuality = None
  /\ lastSearch = None
  /\ clock = 0
  /\ admitted = <<>>
  /\ callers = <<>>
  /\ persisted = <<>>

\* part_000 lines 44-45: search(query) calls getAll and waits
Search ==
  /\ IF lastSearch = None THEN TRUE ELSE lastSearch[1].pc = "done"
  /\ \E query \in Queries :
       lastSearch' = Some([pc |-> "getAll", all |-> <<>>, query |-> query,
                           result |-> <<>>])
  /\ UNCHANGED <<downloadQueue, recentDownloads, videoInfo, created, userOps, starts,
                 sessions, progressListeners, completeListeners, handlers,
                 cancels, storeOps, lastAdded>>
  /\ UNCHANGED <<probeVars, limiterVars, persisted>>

\* part_000 lines 8-15 and 46-52: getAll returns the stored list, or [] when
\* get_recent_downloads rejected; the filter runs on what it returned
SearchGetAllDone ==
  /\ lastSearch # None
  /\ lastSearch[1].pc = "getAll"
  /\ \E ok \in BOOLEAN :
       LET all == IF ok THEN recentDownloads ELSE <<>>
       IN lastSearch' = Some([lastSearch[1] EXCEPT
                                !.pc = "done", !.all = all,
                                !.result = SearchIn(all, lastSearch[1].query)])
  /\ UNCHANGED <<downloadQueue, recentDownloads, videoInfo, created, userOps, starts,
                 sessions, progressListeners, completeListeners, handlers,
                 cancels, storeOps, lastAdded>>
  /\ UNCHANGED <<probeVars, limiterVars, persisted>>

NextSearch ==
  \/ Search
  \/ SearchGetAllDone

SpecSearch == InitSearch /\ [][NextSearch]_vars

\* ------------------------------------ URL input and quality selector
\* a resolution string: <<"x", w, h>> is "WxH", <<"p", h>> is "Hp",
\* <<"n", h>> is the digits of h, <<>> is the empty string and <<"s">> a
\* string without digits
GetResolutionHeight(resolution) ==
  IF resolution = <<>> THEN 0
  ELSE IF resolution[1] = "x" THEN resolution[3]
  ELSE IF resolution[1] = "p" THEN resolution[2]
  ELSE IF resolution[1] = "n" THEN resolution[2]
  ELSE 0

\* ext.toUpperCase()
ExtUpper(ext) == CASE ext = "mp4" -> "MP4" [] ext = "webm" -> "WEBM" [] OTHER -> ext

\* formatting.ts lines 30-35
GetQualityLabel(format) ==
  IF format.resolution # <<>>
  THEN <<format.resolution, ExtUpper(format.ext)>>
  ELSE <<ExtUpper(format.ext)>>

\* lines 55-62: the first format of every resolution-ext key
RECURSIVE UniqueFormats(_, _)
UniqueFormats(formats, keys) ==
  IF formats = <<>> THEN <<>>
  ELSE LET key == <<Head(formats).resolution, Head(formats).ext>>
       IN IF key \in keys THEN UniqueFormats(Tail(formats), keys)
          ELSE <<Head(formats)>> \o UniqueFormats(Tail(formats), keys \cup {key})

\* lines 64-69
OptionOf(format) ==
  [id |-> format.id, format |-> format.ext, resolution |-> format.resolution,
   label |-> GetQualityLabel(format)]

\* lines 72-79: the comparator is negative
SortsBefore(a, b) ==
  LET aRes == GetResolutionHeight(a.resolution)
      bRes == GetResolutionHeight(b.resolution)
  IN IF aRes # bRes THEN bRes - aRes < 0
     ELSE a.format = "mp4" /\ b.format # "mp4"

\* Array.prototype.sort is stable: an option goes before the first one it
\* sorts before
RECURSIVE InsertSorted(_, _)
InsertSorted(sorted, o) ==
  IF sorted = <<>> THEN <<o>>
  ELSE IF SortsBefore(o, Head(sorted)) THEN <<o>> \o sorted
  ELSE <<Head(sorted)>> \o InsertSorted(Tail(sorted), o)

RECURSIVE SortOptions(_, _)
SortOptions(sorted, options) ==
  IF options = <<>> THEN sorted
  ELSE SortOptions(InsertSorted(sorted, Head(options)), Tail(options))

\* formatting.ts lines 54-80
GetFormatOptions(formats) ==
  LET unique == UniqueFormats(formats, {})
  IN SortOptions(<<>>, [i \in DOMAIN unique |-> OptionOf(unique[i])])

\* what getVideoInfoCombined returns for the two videos probed
ProbeResults ==
  { [info |-> Some(125),
     formats |-> << [id |-> "18", resolution |-> <<"x", 640, 360>>, ext |-> "mp4"],
                    [id |-> "248", resolution |-> <<"x", 1920, 1080>>, ext |-> "webm"],
                    [id |-> "137", resolution |-> <<"x", 1920, 1080>>, ext |-> "mp4"] >>],
    [info |-> Some(240),
     formats |-> << [id |-> "135", resolution |-> <<"p", 480>>, ext |-> "mp4"],
                    [id |-> "22", resolution |-> <<"p", 720>>, ext |-> "mp4"],
                    [id |-> "244", resolution |-> <<"p", 480>>, ext |-> "mp4"] >>] }

\* QualitySelector lines 11-15: the effect that runs when formatOptions changes
AutoSelect(formats, selected) ==
  LET formatOptions == GetFormatOptions(formats)
  IN IF Len(formatOptions) > 0 /\ selected = None
     THEN Some(formatOptions[1])
     ELSE selected

\* URLInput lines 36-45: getVideoInfoCombined resolves: setVideoInfo,
\* setAvailableFormats, and the effect of the quality selector
ProbeDone ==
  /\ userOps < MaxUiOps
  /\ userOps' = userOps + 1
  /\ \E result \in ProbeResults :
       /\ videoInfo' = result.info
       /\ availableFormats' = result.formats
       /\ selectedQuality' = AutoSelect(result.formats, selectedQuality)
  /\ UNCHANGED <<downloadQueue, recentDownloads, created, starts, sessions,
                 progressListeners, completeListeners, handlers, cancels,
                 storeOps, lastAdded, lastSearch, limiterVars, persisted>>

\* URLInput lines 19-23: the text typed is no valid URL
UrlInvalid ==
  /\ userOps < MaxUiOps
  /\ userOps' = userOps + 1
  /\ videoInfo' = None
  /\ availableFormats' = <<>>
  /\ selectedQuality' = AutoSelect(<<>>, selectedQuality)
  /\ UNCHANGED <<downloadQueue, recentDownloads, created, starts, sessions,
                 progressListeners, completeListeners, handlers, cancels,
                 storeOps, lastAdded, lastSearch, limiterVars, persisted>>

\* URLInput lines 26-34
HandleClear ==
  /\ userOps < MaxUiOps
  /\ userOps' = userOps + 1
  /\ videoInfo' = None
  /\ availableFormats' = <<>>
  /\ selectedQuality' = None
  /\ UNCHANGED <<downloadQueue, recentDownloads, created, starts, sessions,
                 progressListeners, completeListeners, handlers, cancels,
                 storeOps, lastAdded, lastSearch, limiterVars, persisted>>

\* QualitySelector lines 27-32: the user picks one of the options shown
SelectQuality ==
  /\ userOps < MaxUiOps
  /\ userOps' = userOps + 1
  /\ \E k \in DOMAIN GetFormatOptions(availableFormats) :
       selectedQuality' = Some(GetFormatOptions(availableFormats)[k])
  /\ UNCHANGED <<downloadQueue, recentDownloads, videoInfo, created, starts, sessions,
                 progressListeners, completeListeners, handlers, cancels,
                 storeOps, lastAdded, availableFormats, lastSearch, limiterVars, persisted>>

\* App lines 31-60: handleDownload builds the item, addToQueue puts it first
\* and startDownload runs up to its await of start_download
HandleDownload ==
  /\ userOps < MaxUiOps
  /\ userOps' = userOps + 1
  /\ videoInfo # None
  /\ selectedQuality # None
  /\ created' = created + 1
  /\ LET id == created + 1
         queued == <<NewItem(id, QualityResolution(selectedQuality), videoInfo)>>
                     \o downloadQueue
     IN /\ downloadQueue' = SetDownloading(queued, id)
        /\ starts' = Append(starts, StartTask(queued, id, videoInfo, selectedQuality))
  /\ UNCHANGED <<recentDownloads, videoInfo, sessions, progressListeners,
                 completeListeners, handlers, cancels, storeOps, lastAdded,
                 probeVars, lastSearch, limiterVars, persisted>>

NextQuality ==
  \/ ProbeDone
  \/ UrlInvalid
  \/ HandleClear
  \/ SelectQuality
  \/ HandleDownload

SpecQuality == Init /\ [][NextQuality]_vars

\* the URL input and the quality selector together with the downloads that
\* handleDownload has started
NextFlow ==
  \/ NextQuality
  \/ \E t \in DOMAIN starts : StartDownloadOk(t)
  \/ \E t \in DOMAIN starts : ListenProgress(t)
  \/ \E t \in DOMAIN starts : ListenComplete(t)
  \/ \E s \in DOMAIN sessions : EmitComplete(s)
  \/ \E h \in DOMAIN handlers : GetFileSizeDone(h)
  \/ \E h \in DOMAIN handlers : SaveRecentDone(h)

SpecFlow == Init /\ [][NextFlow]_vars

\* -------------------------------------------- BotDetectionAvoidance
\* the clock counts ticks of ten seconds
Millis(ticks) == ticks * 10000

\* the admissions that are still inside the rolling period at time now
InWindow(times, now) ==
  { i \in DOMAIN times : Millis(now - times[i]) < Period }

\* rateLimiter.wait() lets a caller through when fewer than Requests
\* admissions are inside the period
SlotFree(times, now) == Cardinality(InWindow(times, now)) < Requests

InitLimiter ==
  /\ downloadQueue = <<>>
  /\ recentDownloads = <<>>
  /\ videoInfo = None
  /\ created = 0
  /\ userOps = 0
  /\ starts = <<>>
  /\ sessions = <<>>
  /\ progressListeners = {}
  /\ completeListeners = {}
  /\ handlers = <<>>
  /\ cancels = <<>>
  /\ storeOps = <<>>
  /\ lastAdded = None
  /\ availableFormats = <<>>
  /\ selectedQuality = None
  /\ lastSearch = None
  /\ clock = 0
  /\ admitted = <<>>
  /\ callers = <<>>
  /\ persisted = <<>>

\* line 292: beforeRequest() awaits rateLimiter.wait()
BeforeRequest ==
  /\ Len(callers) < MaxCallers
  /\ clock < MaxTicks
  /\ callers' = Append(callers, [pc |-> "waiting"])
  /\ UNCHANGED <<clock, admitted>>
  /\ UNCHANGED <<downloadQueue, recentDownloads, videoInfo, created, userOps, starts,
                 sessions, progressListeners, completeListeners, handlers,
                 cancels, storeOps, lastAdded, probeVars, lastSearch,
                 persisted>>

\* wait() resolves for caller c: the admission is recorded; line 294: the
\* caller then sleeps for the random delay
Admit(c) ==
  /\ c \in DOMAIN callers
  /\ callers[c].pc = "waiting"
  /\ SlotFree(admitted, clock)
  /\ admitted' = Append(admitted, clock)
  /\ callers' = [callers EXCEPT ![c].pc = "delay"]
  /\ UNCHANGED clock
  /\ UNCHANGED <<downloadQueue, recentDownloads, videoInfo, created, userOps, starts,
                 sessions, progressListeners, completeListeners, handlers,
                 cancels, storeOps, lastAdded, probeVars, lastSearch,
                 persisted>>

\* line 294: the sleep of 1 to 3 seconds is over and beforeRequest returns
DelayDone(c) ==
  /\ c \in DOMAIN callers
  /\ callers[c].pc = "delay"
  /\ callers' = [callers EXCEPT ![c].pc = "done"]
  /\ UNCHANGED <<clock, admitted>>
  /\ UNCHANGED <<downloadQueue, recentDownloads, videoInfo, created, userOps, starts,
                 sessions, progressListeners, completeListeners, handlers,
                 cancels, storeOps, lastAdded, probeVars, lastSearch,
                 persisted>>

\* ten seconds pass (after MaxTicks, only while a caller waits for a slot)
Tick ==
  /\ \/ clock < MaxTicks
     \/ /\ \E c \in DOMAIN callers : callers[c].pc = "waiting"
        /\ ~SlotFree(admitted, clock)
  /\ clock' = clock + 1
  /\ UNCHANGED <<admitted, callers>>
  /\ UNCHANGED <<downloadQueue, recentDownloads, videoInfo, created, userOps, starts,
                 sessions, progressListeners, completeListeners, handlers,
                 cancels, storeOps, lastAdded, probeVars, lastSearch,
                 persisted>>

NextLimiter ==
  \/ BeforeRequest
  \/ \E c \in 1..MaxCallers : Admit(c)
  \/ \E c \in 1..MaxCallers : DelayDone(c)
  \/ Tick

\* time passes, and the limiter wakes a suspended caller once a slot is free
SpecLimiter ==
  /\ InitLimiter
  /\ [][NextLimiter]_vars
  /\ WF_vars(Tick)
  /\ \A c \in 1..MaxCallers : WF_vars(Admit(c))

NextStore ==
  \/ AddRecentDownload
  \/ RemoveRecentDownload
  \/ ClearRecentDownloads
  \/ \E o \in DOMAIN storeOps : StoreOpDone(o)

SpecStore == InitStore /\ [][NextStore]_vars

Next ==
  \/ SetVideoInfo
  \/ AddToQueue
  \/ RemoveFromQueue
  \/ StartDownload
  \/ \E t \in DOMAIN starts : StartDownloadOk(t)
  \/ \E t \in DOMAIN starts : StartDownloadFails(t)
  \/ \E t \in DOMAIN starts : ListenProgress(t)
  \/ \E t \in DOMAIN starts : ListenComplete(t)
  \/ \E s \in DOMAIN sessions : EmitProgress(s)
  \/ \E s \in DOMAIN sessions : EmitComplete(s)
  \/ \E s \in DOMAIN sessions : ProcessExit(s)
  \/ \E h \in DOMAIN handlers : GetFileSizeDone(h)
  \/ \E h \in DOMAIN handlers : SaveRecentDone(h)
  \/ CancelDownload
  \/ \E c \in DOMAIN cancels : CancelDone(c)

Spec == Init /\ [][Next]_vars

\* the same program after a video has been probed and put in the queue
\* twice: two pending entries, with two user operations still to come
InitPair ==
  /\ videoInfo \in { Some(d) : d \in Durations }
  /\ downloadQueue = <<NewItem(2, None, videoInfo), NewItem(1, None, videoInfo)>>
  /\ recentDownloads = <<>>
  /\ created = 2
  /\ userOps = MaxUserOps - 2
  /\ starts = <<>>
  /\ sessions = <<>>
  /\ progressListeners = {}
  /\ completeListeners = {}
  /\ handlers = <<>>
  /\ cancels = <<>>
  /\ storeOps = <<>>
  /\ lastAdded = None
  /\ availableFormats = <<>>
  /\ selectedQuality = None
  /\ lastSearch = None
  /\ clock = 0
  /\ admitted = <<>>
  /\ callers = <<>>
  /\ persisted = <<>>

SpecPair == InitPair /\ [][Next]_vars
\* ===================================================================
\* Properties
\* ===================================================================
Count(s, id) == Cardinality({ i \in DOMAIN s : s[i].id = id })
HandlerActs(h) == h \in DOMAIN handlers /\ handlers'[h].pc # handlers[h].pc
StoreOpApplied(o, what) ==
  /\ storeOps[o].kind = what
  /\ storeOps[o].pc = "invoke"
  /\ storeOps'[o].pc = "done"

\* C1: while an entry is Downloading its progress never decreases: a progress
\* event with a smaller percent than the entry's progress is discarded.
C1_ProgressNeverDecreases ==
  [][\A id \in Ids(downloadQueue) :
       (/\ InQueue(downloadQueue', id)
        /\ EntryOf(downloadQueue, id).status = "downloading"
        /\ EntryOf(downloadQueue', id).status = "downloading")
       => EntryOf(downloadQueue', id).progress >= EntryOf(downloadQueue, id).progress]_vars

\* C2: once a run of the completion callback of a session has applied its
\* transition, a later delivery of the same session's completion notification
\* changes neither the queue nor the recent-downloads list.
C2_SecondDeliveryChangesNothing ==
  [][\A h \in DOMAIN handlers :
       (/\ HandlerActs(h)
        /\ \E g \in 1..(h - 1) : /\ handlers[g].t = handlers[h].t
                                 /\ handlers[g].pc # "size")
       => UNCHANGED <<downloadQueue, recentDownloads>>]_vars

\* C3: when a cancelDownload call on a Downloading entry returns, whether
\* cancel_download succeeded or failed, the entry is Pending.
C3_CancelEndsPending ==
  [][\A c \in DOMAIN cancels :
       (/\ cancels[c].pc = "invoke"
        /\ cancels'[c].pc = "done"
        /\ InQueue(downloadQueue, cancels[c].id)
        /\ EntryOf(downloadQueue, cancels[c].id).status = "downloading")
       => EntryOf(downloadQueue', cancels[c].id).status = "pending"]_vars

\* C4: no entry stays Downloading once nothing more can arrive for it: an entry
\* is Downloading only while a startDownload call for it still awaits
\* start_download, a process started for it has not exited without a
\* notification, a run of its completion callback is pending, or a
\* cancelDownload call for it is in flight.
StillActive(id) ==
  \/ \E t \in DOMAIN starts :
       /\ starts[t].id = id
       /\ \/ starts[t].pc = "invoke"
          \/ /\ starts[t].downloadId # 0
             /\ sessions[starts[t].downloadId].state # "exited"
          \/ \E h \in DOMAIN handlers : handlers[h].t = t /\ handlers[h].pc = "size"
  \/ \E c \in DOMAIN cancels : cancels[c].id = id /\ cancels[c].pc = "invoke"

C4_NoEntryStuckDownloading ==
  \A i \in DOMAIN downloadQueue :
    downloadQueue[i].status = "downloading" => StillActive(downloadQueue[i].id)

\* C5: a startDownload call that ended Failed on AuthRequired has invoked the
\* credential refresh exactly once and start_download exactly twice.
C5_AuthRefreshAndRetryOnce ==
  \A t \in DOMAIN starts :
    (starts[t].pc = "failed" /\ starts[t].error = Some("AuthRequired"))
    => (starts[t].refreshes = 1 /\ starts[t].calls = 2)

\* C6: the recent-downloads list never holds more than 100 records, and adding
\* a new identifier to a list of exactly 100 puts the record first, shifts the
\* first 99 down by one and drops only the last.
C6_AtMostMaxItems ==
  /\ [](Len(recentDownloads) <= MaxItems)
  /\ [][\A o \in DOMAIN storeOps :
          (/\ StoreOpApplied(o, "add")
           /\ Count(recentDownloads, storeOps[o].download.id) = 0
           /\ Len(recentDownloads) = MaxItems)
          => /\ Len(recentDownloads') = MaxItems
             /\ recentDownloads'[1] = storeOps[o].download
             /\ \A j \in 1..(MaxItems - 1) : recentDownloads'[j + 1] = recentDownloads[j]]_vars

C6_Witness ==
  /\ Len(recentDownloads) = MaxItems
  /\ recentDownloads[1].id = MaxItems + 2
  /\ recentDownloads[2].id = MaxItems + 1
  /\ recentDownloads[MaxItems].id = MaxItems - 2

C9_UniqueIdentifiers ==
  Cardinality({ recentDownloads[i].id : i \in DOMAIN recentDownloads }) = Len(recentDownloads)

\* two adds of one new identifier, the later call applied while the earlier is
\* still suspended on save_recent_download
C9_Witness ==
  /\ Len(storeOps) >= 2
  /\ storeOps[1].kind = "add" /\ storeOps[2].kind = "add"
  /\ storeOps[1].download.id = MaxItems + 1
  /\ storeOps[2].download.id = MaxItems + 1
  /\ storeOps[1].pc = "invoke"
  /\ storeOps[2].pc = "done"
  /\ Count(recentDownloads, MaxItems + 1) = 1

C11_SaveFailureKeepsCompleted ==
  [][\A h \in DOMAIN handlers :
       (handlers[h].pc = "save" /\ handlers'[h].pc = "doneUnsaved")
       => /\ downloadQueue' = downloadQueue
          /\ recentDownloads' = recentDownloads
          /\ handlers[h].t \notin progressListeners'
          /\ handlers[h].t \notin completeListeners']_vars

C11_Witness ==
  /\ Len(handlers) = 1
  /\ handlers[1].pc = "doneUnsaved"
  /\ Len(downloadQueue) = 1
  /\ downloadQueue[1].status = "completed"
  /\ downloadQueue[1].progress = 100
  /\ downloadQueue[1].error = None
  /\ recentDownloads = <<>>
  /\ progressListeners = {}
  /\ completeListeners = {}

\* C12: a progress event changes an entry only while the entry is Downloading:
\* delivered for an entry that is Pending, Failed or Completed it leaves the
\* entry as it is.
C12_ProgressOnlyWhileDownloading ==
  [][(\E s \in DOMAIN sessions : EmitProgress(s))
     => \A i \in DOMAIN downloadQueue :
          downloadQueue[i].status # "downloading"
          => downloadQueue'[i] = downloadQueue[i]]_vars

\* C13: once an entry is Completed its status stays Completed for as long as
\* the entry is in the queue.
C13_CompletedIsTerminal ==
  [][\A id \in Ids(downloadQueue) :
       (/\ InQueue(downloadQueue', id)
        /\ EntryOf(downloadQueue, id).status = "completed")
       => EntryOf(downloadQueue', id).status = "completed"]_vars

\* C14: when start_download rejects with an error other than AuthRequired, the
\* entry is Failed with that error as its message, no process was started, and
\* the call has invoked start_download once and does nothing further.
C14_NonAuthErrorFails ==
  [][\A t \in DOMAIN starts :
       /\ (/\ starts[t].pc = "invoke"
           /\ starts'[t].pc = "failed"
           /\ starts'[t].error # Some("AuthRequired"))
          => /\ starts'[t].calls = 1
             /\ sessions' = sessions
             /\ InQueue(downloadQueue, starts[t].id)
                => /\ EntryOf(downloadQueue', starts[t].id).status = "failed"
                   /\ EntryOf(downloadQueue', starts[t].id).error = starts'[t].error
       /\ starts[t].pc = "failed" => starts'[t] = starts[t]]_vars

C14_Witness ==
  /\ Len(starts) = 1
  /\ starts[1].pc = "failed"
  /\ starts[1].error = Some("NetworkError")
  /\ starts[1].calls = 1
  /\ sessions = <<>>
  /\ Len(downloadQueue) = 1
  /\ downloadQueue[1].status = "failed"
  /\ downloadQueue[1].error = Some("NetworkError")

\* C15: the in-memory list changes only in the step in which the backend call
\* of an addRecentDownload, removeRecentDownload or clearRecentDownloads has
\* succeeded; while the call is pending and when it fails the list is
\* unchanged.
C15_PersistBeforeMemory ==
  [][/\ recentDownloads' # recentDownloads
        => \E o \in DOMAIN storeOps : /\ storeOps[o].pc = "invoke"
                                      /\ storeOps'[o].pc = "done"
     /\ \A o \in DOMAIN storeOps :
          (storeOps[o].pc = "invoke" /\ storeOps'[o].pc = "failed")
          => recentDownloads' = recentDownloads
     /\ Len(storeOps') > Len(storeOps) => recentDownloads' = recentDownloads]_vars

\* an add, a remove and a clear, of which one failed and left the list alone
C15_Witness ==
  /\ Len(storeOps) = 3
  /\ storeOps[1].kind = "add" /\ storeOps[1].pc = "done"
  /\ storeOps[2].kind = "remove" /\ storeOps[2].pc = "done"
  /\ storeOps[3].kind = "clear" /\ storeOps[3].pc = "failed"
  /\ recentDownloads # <<>>

\* C16: search(query) returns exactly the records of the list, in the order
\* of the list, whose title or source URL contains the query when letters are
\* compared without regard to case; the empty query returns the whole list.
UpperOf(c) == CASE c = "a" -> "A" [] c = "b" -> "B" [] c = "x" -> "X" [] OTHER -> c
ContainsIgnoringCase(str, q) ==
  \E i \in 0..(Len(str) - Len(q)) :
    \A k \in 1..Len(q) : UpperOf(str[i + k]) = UpperOf(q[k])
MatchingIndexes(all, q) ==
  { i \in DOMAIN all : \/ ContainsIgnoringCase(all[i].title, q)
                        \/ ContainsIgnoringCase(all[i].url, q) }

C17_ProgressWithinRange ==
  \A i \in DOMAIN downloadQueue :
    downloadQueue[i].progress >= 0 /\ downloadQueue[i].progress <= 100

C19_ChosenFormatHandedOver ==
  /\ \A t \in DOMAIN starts :
       starts[t].chosen # None => starts[t].format = starts[t].chosen[1].id
  /\ \A t, u \in DOMAIN starts :
       (/\ starts[t].chosen # None
        /\ starts[u].chosen # None
        /\ starts[t].chosen # starts[u].chosen)
       => starts[t].format # starts[u].format

\* C20: the selected quality is always one of the options of the formats now
\* available, and when the formats of another video become available the
\* selected quality is an option of greatest height among them, an mp4 one if
\* there is one of that height.
HeightOf(o) == GetResolutionHeight(o.resolution)
OptionSet(formats) ==
  { GetFormatOptions(formats)[k] : k \in DOMAIN GetFormatOptions(formats) }
IsBestOption(o, formats) ==
  /\ o \in OptionSet(formats)
  /\ \A p \in OptionSet(formats) :
       /\ HeightOf(p) <= HeightOf(o)
       /\ (HeightOf(p) = HeightOf(o) /\ p.format = "mp4") => o.format = "mp4"

C20_DefaultIsBestOfCurrent ==
  /\ [](selectedQuality # None => selectedQuality[1] \in OptionSet(availableFormats))
  /\ [][(availableFormats' # availableFormats /\ availableFormats' # <<>>)
        => /\ selectedQuality' # None
           /\ IsBestOption(selectedQuality'[1], availableFormats')]_vars

\* ------------------------------------------------------------------
\* a step in which an event of session s is handled: a download-progress
\* event of s is delivered, or a run of the complete callback for s goes on
EventOfSession(s) ==
  \/ EmitProgress(s)
  \/ \E h \in DOMAIN handlers :
       HandlerActs(h) /\ starts[handlers[h].t].downloadId = s

\* C21: once cancelDownload has returned for an entry that was downloading,
\* the sessions the entry had are no longer bound to it: handling a later
\* progress or completion event of such a session changes neither the queue
\* nor the recent-downloads list.
C21_CancelDestroysBinding ==
  [][\A c \in DOMAIN cancels :
       (cancels[c].pc = "done" /\ cancels[c].was = "downloading")
         => \A s \in cancels[c].bound :
              EventOfSession(s) => UNCHANGED <<downloadQueue, recentDownloads>>]_vars

\* C22: a cancelDownload made for a downloading entry hands cancel_download
\* the identifier start_download returned for that entry, so the process
\* asked to terminate is the entry's own.
C22_CancelNamesTheSession ==
  \A c \in DOMAIN cancels :
    (cancels[c].was = "downloading" /\ cancels[c].bound # {})
      => \E s \in cancels[c].bound : CancelRequest(cancels[c].id) = SessionKey(s)

\* ------------------------------------------------------------------
\* the sessions of entry id whose process is still running
ActiveSessions(id) ==
  { s \in BoundSessions(id) : sessions[s].state = "running" }

\* C23: an entry has at most one running session and a session belongs to
\* exactly one startDownload call, hence one entry: starting an entry that is
\* already downloading spawns no second process for it.
C23_OneSessionPerEntry ==
  /\ \A id \in 1..created : Cardinality(ActiveSessions(id)) <= 1
  /\ \A s \in DOMAIN sessions :
       Cardinality({ t \in DOMAIN starts : starts[t].downloadId = s }) = 1

\* ------------------------------------------------------------------
\* the fields of an entry the queue view shows
EntryFields(d) == <<d.status, d.progress, d.speed, d.eta, d.error>>

\* the entries a step leaves in the queue with another status, progress,
\* speed, eta or error
ChangedEntries ==
  { id \in Ids(downloadQueue) \cap Ids(downloadQueue') :
      EntryFields(EntryOf(downloadQueue, id)) # EntryFields(EntryOf(downloadQueue', id)) }

\* the entries a step is for: the entry a startDownload or cancelDownload
\* call was made for, the entry of the call whose invoke or listen returns,
\* the entry of the call whose complete callback runs, and the entries whose
\* start returned the session a progress event carries
StepEntries ==
  { starts'[t].id : t \in DOMAIN starts' \ DOMAIN starts }
    \cup { starts[t].id : t \in { x \in DOMAIN starts : starts'[x].pc # starts[x].pc } }
    \cup { cancels[c].id : c \in { x \in DOMAIN cancels : cancels'[x].pc # cancels[x].pc } }
    \cup { starts[handlers[h].t].id : h \in { x \in DOMAIN handlers : HandlerActs(x) } }
    \cup { id \in 1..created :
             \E s \in DOMAIN sessions :
               /\ EmitProgress(s)
               /\ \E t \in DOMAIN starts :
                    starts[t].downloadId = s /\ starts[t].id = id }

\* C24: a step made for one entry (start, cancel, remove, a progress or a
\* completion event) leaves status, progress, speed, eta and error of every
\* other entry as they were, and an event of session S changes only the entry
\* whose start returned S.
C24_OtherEntriesUnchanged ==
  [][ChangedEntries \subseteq StepEntries]_vars

\* two downloads of different entries run, and a progress event of one has
\* been applied while the other entry still shows no progress
C24_Witness ==
  \E t, u \in DOMAIN starts :
    /\ starts[t].id # starts[u].id
    /\ t \in progressListeners /\ u \in progressListeners
    /\ InQueue(downloadQueue, starts[t].id) /\ InQueue(downloadQueue, starts[u].id)
    /\ EntryOf(downloadQueue, starts[t].id).progress = 80
    /\ EntryOf(downloadQueue, starts[u].id).progress = 0
    /\ EntryOf(downloadQueue, starts[u].id).status = "downloading"

\* ------------------------------------------------------------------
\* C25: while the process of a session runs, and so can emit events, the
\* progress and the complete listener of the call that started it are
\* registered: no event of the session goes unheard.
C25_ListenersBeforeEvents ==
  \A s \in DOMAIN sessions :
    sessions[s].state = "running"
      => \E t \in progressListeners \cap completeListeners :
           starts[t].downloadId = s

\* ------------------------------------------------------------------
\* no call of a store action is suspended
NoStoreOpInFlight ==
  \A o \in DOMAIN storeOps : storeOps[o].pc \in {"done", "failed"}

\* C26: whenever no store operation is in flight, the in-memory list holds
\* exactly the identifiers of the persisted collection.
C26_MemoryMirrorsPersisted ==
  NoStoreOpInFlight => Ids(recentDownloads) = Ids(persisted)

\* ------------------------------------------------------------------
\* C27: the complete callback hands a record to addRecentDownload only for
\* an entry that is in the queue and downloading when the completion is
\* processed; a completion that comes after removeFromQueue writes none.
C27_RecordOnlyForDownloadingEntry ==
  [][\A h \in DOMAIN handlers :
       (handlers[h].pc = "size" /\ handlers'[h].pc = "save")
         => /\ InQueue(downloadQueue, starts[handlers[h].t].id)
            /\ EntryOf(downloadQueue, starts[handlers[h].t].id).status = "downloading"]_vars

\* ------------------------------------------------------------------
\* C28: when the complete callback of a download sets its entry completed
\* while the probe result in the store is that of another video than the one
\* the download was started for, the probe result, the formats and the
\* selected quality stay as they are.
C28_CompletionKeepsOtherProbe ==
  [][\A h \in DOMAIN handlers :
       (/\ handlers[h].pc = "size" /\ handlers'[h].pc = "save"
        /\ videoInfo # None
        /\ videoInfo # starts[handlers[h].t].videoInfo)
         => UNCHANGED <<videoInfo, availableFormats, selectedQuality>>]_vars

\* ------------------------------------------------------------------
\* C29: the record the complete callback builds for an entry carries the
\* duration of the video the entry was made for, whatever videoInfo held when
\* startDownload was called for it.
C29_RecordOfOwnVideo ==
  \A h \in DOMAIN handlers :
    LET t == handlers[h].t
    IN (handlers[h].pc # "size" /\ starts[t].title # None)
         => RecordOf(t, handlers[h].fileSize, handlers[h].completedAt).duration
              = starts[t].title[1]

\* ------------------------------------------------------------------
\* C30: an entry carries an error message exactly when its status is failed;
\* an entry started again after a failure no longer carries one.
C30_ErrorIffFailed ==
  \A i \in DOMAIN downloadQueue :
    (downloadQueue[i].error # None) <=> (downloadQueue[i].status = "failed")
====
